---- MODULE Spec2Model ----
(***************************************************************************)
(* A model of the CalendarHeatmap component (src/src/CalendarHeatmap.tsx): *)
(* the date-grid builders, the value index, the intensity scale, the       *)
(* colour mixer, the legend builder, the cell mapping and the React state  *)
(* (activeMonthIndex with its two effects).                                *)
(*                                                                         *)
(* Props are state variables; everything a render derives from them is an  *)
(* operator over the props, computed the way the source computes it.       *)
(***************************************************************************)
EXTENDS Integers, Sequences, FiniteSets, TLC

VARIABLES
    start,            \* prop start: [y, m] with m 1-based, as written in "YYYY-MM"
    end,              \* prop range.end: <<>> when absent, <<[y, m]>> otherwise
    now,              \* what new Date() returned when months was last computed
    months,           \* useMemo(() => buildMonths(start, end, weekStart))
    weekStart,        \* resolved range.weekStart: what the caller wrote, or "sun"
    data,             \* prop data: sequence of [date, value]
    onDayClick,       \* TRUE when a day-click handler is configured
    legendLabels,     \* prop legend.labels: <<>> when absent, <<list>> otherwise
    showLegend,       \* resolved legend.show
    baseColor,        \* resolved cell.baseColor: the hex digits after "#"
    activeMonthIndex, \* useState(0)
    committed,        \* deps of the last effect run: <<>> before mount,
                      \* <<[start, end, len]>> afterwards
    probe,            \* the last argument handed to intensityScale.intensity
    probeOut,         \* and what it returned
    clicks,           \* payloads delivered to onDayClick, oldest first
    options           \* what the caller wrote for range.weekStart,
                      \* legend.position, labels.weekdayLanguage,
                      \* labels.showWeekday and cell.size; <<>> when absent

vars == <<start, end, now, months, weekStart, data, onDayClick, legendLabels,
          showLegend, baseColor, activeMonthIndex, committed, probe,
          probeOut, clicks, options>>

-----------------------------------------------------------------------------
(* Bounds of the model *)

\* number of calendar years, from FirstYear on, props and the clock range over
MaxYears == 3
\* how many months after start an explicit end may lie
MaxSpan == 3

FirstYear == 2024
\* longest data list
MaxData == 3
\* longest caller list of legend labels
MaxLabels == 6
\* the numbers handed to the intensity function lie MaxProbe around 0
MaxProbe == 12
\* clicks recorded
MaxClicks == 2
\* largest denominator of the intensities the colour mixer is tried on
MaxDenominator == 4
\* largest cell width or height written
MaxCellSize == 30

None == <<>>
Some(x) == <<x>>

-----------------------------------------------------------------------------
(* The Date object: local calendar dates, as [y, m, d] with m 0-based.     *)
(* new Date(y, m, d) accepts any m and d and normalises them.              *)

\* days from 1970-01-01 to day d of month m1 (1-based) of year y; d is free
DaysFromCivil(y, m1, d) ==
    LET yy  == IF m1 <= 2 THEN y - 1 ELSE y
        era == yy \div 400
        yoe == yy - era * 400
        mp  == IF m1 > 2 THEN m1 - 3 ELSE m1 + 9
        doy == (153 * mp + 2) \div 5 + d - 1
        doe == yoe * 365 + yoe \div 4 - yoe \div 100 + doy
    IN  era * 146097 + doe - 719468

CivilFromDays(z) ==
    LET zz  == z + 719468
        era == zz \div 146097
        doe == zz - era * 146097
        yoe == (doe - doe \div 1460 + doe \div 36524 - doe \div 146096) \div 365
        doy == doe - (365 * yoe + yoe \div 4 - yoe \div 100)
        mp  == (5 * doy + 2) \div 153
        d   == doy - (153 * mp + 2) \div 5 + 1
        m1  == IF mp < 10 THEN mp + 3 ELSE mp - 9
        y   == yoe + era * 400 + (IF m1 <= 2 THEN 1 ELSE 0)
    IN  [y |-> y, m |-> m1 - 1, d |-> d]

\* new Date(y, m, d): month and day overflow carry into the year and month
NewDate(y, m, d) ==
    CivilFromDays(DaysFromCivil(y + (m \div 12), (m % 12) + 1, 1) + d - 1)

\* Date.prototype.getTime, in whole local days
getTime(date) == DaysFromCivil(date.y, date.m + 1, date.d)

\* Date.prototype.getDay: 0 = Sunday .. 6 = Saturday (1970-01-01 was a Thursday)
getDay(date) == (getTime(date) + 4) % 7

pad(n) == IF n < 10 THEN "0" \o ToString(n) ELSE ToString(n)

\* parseYM: "YYYY-MM" split at "-" and read as numbers; the month is 1-based
parseYM(s) == NewDate(s.y, s.m - 1, 1)

endOfMonth(d) == NewDate(d.y, d.m + 1, 0)

addDays(d, n) == NewDate(d.y, d.m, d.d + n)

toISO(d) == ToString(d.y) \o "-" \o pad(d.m + 1) \o "-" \o pad(d.d)

startOfWeek(date, ws) ==
    LET day    == getDay(date)
        target == IF ws = "sun" THEN 0 ELSE 1
        back   == (day - target + 7) % 7
    IN  addDays(date, -back)

\* endOfWeek with the Saturday target kept for a Monday week start
endOfWeekSaturdayOnly(date, ws) ==
    LET day     == getDay(date)
        target  == 6
        forward == (target - day + 7) % 7
    IN  addDays(date, forward)

endOfWeek(date, ws) ==
    LET day     == getDay(date)
        target  == IF ws = "sun" THEN 6 ELSE 0
        forward == (target - day + 7) % 7
    IN  addDays(date, forward)

-----------------------------------------------------------------------------
(* Grid builders *)

RECURSIVE DaysLoop(_, _, _)
\* the for loop of buildMonthDays: from d while d <= gridEnd, one day a step
DaysLoop(d, gridEnd, month) ==
    IF getTime(d) <= getTime(gridEnd)
    THEN <<[iso |-> toISO(d), inMonth |-> (d.m = month)]>>
         \o DaysLoop(addDays(d, 1), gridEnd, month)
    ELSE <<>>

buildMonthDays(year, month, ws) ==
    LET firstOfMonth == NewDate(year, month, 1)
        lastOfMonth  == endOfMonth(firstOfMonth)
        gridStart    == startOfWeek(firstOfMonth, ws)
        gridEnd      == endOfWeek(lastOfMonth, ws)
    IN  DaysLoop(gridStart, gridEnd, month)

RECURSIVE MonthsLoopExclusive(_, _, _, _)
\* the while loop of buildMonths stopping one month short of the end
MonthsLoopExclusive(cursor, endYear, endMonth, ws) ==
    IF cursor.y < endYear \/ (cursor.y = endYear /\ cursor.m < endMonth)
    THEN <<[year  |-> cursor.y,
            month |-> cursor.m,
            days  |-> buildMonthDays(cursor.y, cursor.m, ws)]>>
         \o MonthsLoopExclusive(NewDate(cursor.y, cursor.m + 1, 1),
                                endYear, endMonth, ws)
    ELSE <<>>

RECURSIVE MonthsLoop(_, _, _, _)
\* the while loop of buildMonths
MonthsLoop(cursor, endYear, endMonth, ws) ==
    IF cursor.y < endYear \/ (cursor.y = endYear /\ cursor.m <= endMonth)
    THEN <<[year  |-> cursor.y,
            month |-> cursor.m,
            days  |-> buildMonthDays(cursor.y, cursor.m, ws)]>>
         \o MonthsLoop(NewDate(cursor.y, cursor.m + 1, 1), endYear, endMonth, ws)
    ELSE <<>>

buildMonths(startYM, endYM, ws, clock) ==
    LET startMonth   == parseYM(startYM)
        endMonthDate == IF endYM # None THEN parseYM(endYM[1]) ELSE clock
    IN  MonthsLoop(NewDate(startMonth.y, startMonth.m, 1),
                   endMonthDate.y, endMonthDate.m, ws)

\* safeMonths without the fallback grid
safeMonthsNoFallback(ms, startYM, ws) == ms

safeMonthsOf(ms, startYM, ws) ==
    IF Len(ms) > 0 THEN ms
    ELSE LET s == parseYM(startYM)
         IN  <<[year  |-> s.y,
                month |-> s.m,
                days  |-> buildMonthDays(s.y, s.m, ws)]>>

safeMonths == safeMonthsOf(months, start, weekStart)

-----------------------------------------------------------------------------
(* Values: number | null | undefined, with the non-finite numbers apart *)

Num(n)    == [k |-> "num", n |-> n]
Null      == [k |-> "null", n |-> 0]
Undefined == [k |-> "undefined", n |-> 0]
NaN       == [k |-> "nan", n |-> 0]
Infinity  == [k |-> "inf", n |-> 0]

\* typeof value === "number" && Number.isFinite(value)
isFiniteNumber(value) == value.k = "num"

\* exact quotients a / b, b > 0, in lowest terms
RECURSIVE Gcd(_, _)
Gcd(a, b) == IF b = 0 THEN a ELSE Gcd(b, a % b)

Abs(a) == IF a < 0 THEN -a ELSE a

Frac(a, b) ==
    LET g == Gcd(Abs(a), b)
    IN  [num |-> a \div g, den |-> b \div g]

FracLe(p, q) == p.num * q.den <= q.num * p.den

-----------------------------------------------------------------------------
(* Value index *)

RECURSIVE MapSetLoop(_, _, _)
\* for (const { date, value } of data) m.set(date, finite ? value : null)
MapSetLoop(d, i, m) ==
    IF i > Len(d) THEN m
    ELSE LET v   == IF isFiniteNumber(d[i].value) THEN d[i].value ELSE Null
             dom == (DOMAIN m) \cup {d[i].date}
         IN  MapSetLoop(d, i + 1,
                 [k \in dom |-> IF k = d[i].date THEN v ELSE m[k]])

dateValueMapOf(d) == MapSetLoop(d, 1, [k \in {} |-> Null])

dateValueMap == dateValueMapOf(data)

\* Map.prototype.get
MapGet(m, key) == IF key \in DOMAIN m THEN m[key] ELSE Undefined

RECURSIVE SelectFinite(_)
SelectFinite(vs) ==
    IF vs = <<>> THEN <<>>
    ELSE (IF isFiniteNumber(Head(vs)) THEN <<Head(vs)>> ELSE <<>>)
         \o SelectFinite(Tail(vs))

\* data.map((d) => d.value ?? NaN).filter((v) => Number.isFinite(v))
scaleValuesOf(d) ==
    SelectFinite([i \in 1..Len(d) |->
        IF d[i].value.k \in {"null", "undefined"} THEN NaN ELSE d[i].value])

scaleValues == scaleValuesOf(data)

-----------------------------------------------------------------------------
(* Intensity scale *)

\* clamp01 without the upper bound
clamp01NoCeiling(x) == IF FracLe(x, Frac(0, 1)) THEN Frac(0, 1) ELSE x

\* Math.max(0, Math.min(1, x)) on an exact quotient
clamp01(x) ==
    LET m == IF FracLe(Frac(1, 1), x) THEN Frac(1, 1) ELSE x
    IN  IF FracLe(m, Frac(0, 1)) THEN Frac(0, 1) ELSE m

SeqMin(vs) == CHOOSE x \in {vs[i].n : i \in 1..Len(vs)} :
                  \A j \in 1..Len(vs) : x <= vs[j].n
SeqMax(vs) == CHOOSE x \in {vs[i].n : i \in 1..Len(vs)} :
                  \A j \in 1..Len(vs) : x >= vs[j].n

\* buildScale falling back to 1 when no value is finite
buildScaleFallbackOne(values) ==
    LET finiteVals  == SelectFinite(values)
        resolvedMin == IF Len(finiteVals) > 0 THEN SeqMin(finiteVals) ELSE 1
        resolvedMax == IF Len(finiteVals) > 0 THEN SeqMax(finiteVals)
                       ELSE resolvedMin
    IN  [resolvedMin |-> resolvedMin,
         resolvedMax |-> resolvedMax,
         range       |-> resolvedMax - resolvedMin]

\* the closure buildScale returns: thresholds and the range intensity reads
buildScale(values) ==
    LET finiteVals    == SelectFinite(values)
        fallbackValue == 0
        resolvedMin   == IF Len(finiteVals) > 0 THEN SeqMin(finiteVals)
                         ELSE fallbackValue
        resolvedMax   == IF Len(finiteVals) > 0 THEN SeqMax(finiteVals)
                         ELSE resolvedMin
    IN  [resolvedMin |-> resolvedMin,
         resolvedMax |-> resolvedMax,
         range       |-> resolvedMax - resolvedMin]

\* intensity(v) of the scale sc; v is a finite number, null or undefined
intensity(sc, v) ==
    IF v.k \in {"null", "undefined"} THEN Frac(0, 1)
    ELSE IF sc.range = 0 THEN Frac(1, 1)
    ELSE clamp01(Frac(v.n - sc.resolvedMin, sc.range))

intensityScale == buildScale(scaleValues)

-----------------------------------------------------------------------------
(* Colours: a hex colour is the sequence of its characters *)

HexDigits == <<"0", "1", "2", "3", "4", "5", "6", "7",
               "8", "9", "a", "b", "c", "d", "e", "f">>

HexDigitsUpper == <<"0", "1", "2", "3", "4", "5", "6", "7",
                    "8", "9", "A", "B", "C", "D", "E", "F">>

\* parseInt reads the digits in either case
IsHexChar(ch) == \E i \in 1..16 : HexDigits[i] = ch \/ HexDigitsUpper[i] = ch

HexValue(ch) ==
    (CHOOSE i \in 1..16 : HexDigits[i] = ch \/ HexDigitsUpper[i] = ch) - 1

RECURSIVE RemoveFirstHash(_)
\* hex.replace("#", ""): the first "#" only
RemoveFirstHash(cs) ==
    IF cs = <<>> THEN <<>>
    ELSE IF Head(cs) = "#" THEN Tail(cs)
    ELSE <<Head(cs)>> \o RemoveFirstHash(Tail(cs))

RECURSIVE DoubleEach(_)
\* c.split("").map((ch) => ch + ch).join("")
DoubleEach(cs) ==
    IF cs = <<>> THEN <<>>
    ELSE <<Head(cs), Head(cs)>> \o DoubleEach(Tail(cs))

RECURSIVE ParseHexLoop(_, _)
\* parseInt(s, 16): the digits up to the first character that is none;
\* NaN when there is no digit, which the shifts below read as 0
ParseHexLoop(cs, acc) ==
    IF cs = <<>> \/ ~IsHexChar(Head(cs)) THEN acc
    ELSE ParseHexLoop(Tail(cs), acc * 16 + HexValue(Head(cs)))

hexToRgb(hex) ==
    LET c      == RemoveFirstHash(hex)
        bigint == ParseHexLoop(IF Len(c) = 3 THEN DoubleEach(c) ELSE c, 0)
    IN  <<(bigint \div 65536) % 256, (bigint \div 256) % 256, bigint % 256>>

\* the channel mix with Math.floor in the place of Math.round
MixChannelTruncating(ch, t) ==
    (ch * t.den + (255 - ch) * (t.den - t.num)) \div t.den

\* Math.round(ch + (255 - ch) * (1 - t)) for t = num / den
MixChannel(ch, t) ==
    (2 * (ch * t.den + (255 - ch) * (t.den - t.num)) + t.den) \div (2 * t.den)

RgbString(r, g, b) ==
    "rgb(" \o ToString(r) \o ", " \o ToString(g) \o ", " \o ToString(b) \o ")"

mixToWhite(hex, t) ==
    LET rgb == hexToRgb(hex)
    IN  RgbString(MixChannel(rgb[1], t), MixChannel(rgb[2], t),
                  MixChannel(rgb[3], t))

emptyColor == "#FFECEC"

-----------------------------------------------------------------------------
(* Legend *)

DEFAULT_LEGEND_LABELS == <<"Low", "Medium", "High", "Very High">>
LEGEND_STEP_COUNT == 4

\* legendLabelsResolved padding from the front of the defaults
legendLabelsPaddedFromFront(labels) ==
    LET base == IF labels # None /\ Len(labels[1]) > 0 THEN labels[1]
                ELSE DEFAULT_LEGEND_LABELS
    IN  IF Len(base) >= LEGEND_STEP_COUNT
        THEN SubSeq(base, 1, LEGEND_STEP_COUNT)
        ELSE base \o SubSeq(DEFAULT_LEGEND_LABELS, 1,
                            LEGEND_STEP_COUNT - Len(base))

legendLabelsResolvedOf(labels) ==
    LET base == IF labels # None /\ Len(labels[1]) > 0 THEN labels[1]
                ELSE DEFAULT_LEGEND_LABELS
    IN  IF Len(base) >= LEGEND_STEP_COUNT
        THEN SubSeq(base, 1, LEGEND_STEP_COUNT)
        ELSE base \o SubSeq(DEFAULT_LEGEND_LABELS, Len(base) + 1,
                            LEGEND_STEP_COUNT)

legendLabelsResolved == legendLabelsResolvedOf(legendLabels)

\* legendLevels dividing by the step count instead of the last index
legendLevelsByStepCount(show, resolved) ==
    IF ~show THEN <<>>
    ELSE [idx \in 1..LEGEND_STEP_COUNT |->
             [label     |-> resolved[idx],
              intensity |-> Frac(idx - 1, LEGEND_STEP_COUNT)]]

legendLevelsOf(show, resolved) ==
    IF ~show THEN <<>>
    ELSE [idx \in 1..LEGEND_STEP_COUNT |->
             [label     |-> resolved[idx],
              intensity |-> Frac(idx - 1, LEGEND_STEP_COUNT - 1)]]

legendLevels == legendLevelsOf(showLegend, legendLabelsResolved)

\* what the Legend subcomponent paints: nothing for no levels, else one
\* swatch and label per level
Legend(base, levels) ==
    IF Len(levels) = 0 THEN <<>>
    ELSE [i \in 1..Len(levels) |->
             [label  |-> levels[i].label,
              swatch |-> mixToWhite(base, levels[i].intensity)]]

-----------------------------------------------------------------------------
(* Cell mapping: days.map(({ iso, inMonth }) => ...) of the main component *)

\* the cell mapping with interactive = !!onDayClick, the month forgotten
cellOfAnyMonthInteractive(day, valueMap, sc, base, handler) ==
    LET dataValue    == MapGet(valueMap, day.iso)
        valueForCell == IF day.inMonth /\ isFiniteNumber(dataValue)
                        THEN dataValue ELSE Null
        t            == IF valueForCell = Null THEN Frac(0, 1)
                        ELSE intensity(sc, valueForCell)
        hasValue     == day.inMonth /\ valueForCell # Null
        fill         == IF hasValue THEN mixToWhite(base, t) ELSE emptyColor
        interactive  == handler
    IN  [iso          |-> day.iso,
         inMonth      |-> day.inMonth,
         valueForCell |-> valueForCell,
         intensity    |-> t,
         fill         |-> fill,
         interactive  |-> interactive,
         onClick      |-> IF ~day.inMonth THEN FALSE ELSE interactive]

\* the cell mapping reading the value of padding days too
cellOfPaddingShowsData(day, valueMap, sc, base, handler) ==
    LET dataValue    == MapGet(valueMap, day.iso)
        valueForCell == IF isFiniteNumber(dataValue) THEN dataValue ELSE Null
        t            == IF valueForCell = Null THEN Frac(0, 1)
                        ELSE intensity(sc, valueForCell)
        hasValue     == valueForCell # Null
        fill         == IF hasValue THEN mixToWhite(base, t) ELSE emptyColor
        interactive  == handler /\ day.inMonth
    IN  [iso          |-> day.iso,
         inMonth      |-> day.inMonth,
         valueForCell |-> valueForCell,
         intensity    |-> t,
         fill         |-> fill,
         interactive  |-> interactive,
         onClick      |-> IF ~day.inMonth THEN FALSE ELSE interactive]

\* the cell mapping without the separate branch for the days of other
\* months: their cells get the handler too
cellOfPaddingClickable(day, valueMap, sc, base, handler) ==
    LET dataValue    == MapGet(valueMap, day.iso)
        valueForCell == IF day.inMonth /\ isFiniteNumber(dataValue)
                        THEN dataValue ELSE Null
        t            == IF valueForCell = Null THEN Frac(0, 1)
                        ELSE intensity(sc, valueForCell)
        hasValue     == day.inMonth /\ valueForCell # Null
        fill         == IF hasValue THEN mixToWhite(base, t) ELSE emptyColor
        interactive  == handler
    IN  [iso          |-> day.iso,
         inMonth      |-> day.inMonth,
         valueForCell |-> valueForCell,
         intensity    |-> t,
         fill         |-> fill,
         interactive  |-> interactive,
         onClick      |-> interactive]

cellOf(day, valueMap, sc, base, handler) ==
    LET dataValue    == MapGet(valueMap, day.iso)
        valueForCell == IF day.inMonth /\ isFiniteNumber(dataValue)
                        THEN dataValue ELSE Null
        t            == IF valueForCell = Null THEN Frac(0, 1)
                        ELSE intensity(sc, valueForCell)
        hasValue     == day.inMonth /\ valueForCell # Null
        fill         == IF hasValue THEN mixToWhite(base, t) ELSE emptyColor
        interactive  == handler /\ day.inMonth
    IN  [iso          |-> day.iso,
         inMonth      |-> day.inMonth,
         valueForCell |-> valueForCell,
         intensity    |-> t,
         fill         |-> fill,
         interactive  |-> interactive,
         \* the out-of-month branch returns a div with no onClick at all
         onClick      |-> IF ~day.inMonth THEN FALSE ELSE interactive]

\* const activeMonth = safeMonths[activeMonthIndex]: undefined past the end
activeMonth ==
    IF activeMonthIndex + 1 \in 1..Len(safeMonths)
    THEN Some(safeMonths[activeMonthIndex + 1]) ELSE None

\* const days = activeMonth?.days ?? []
days == IF activeMonth # None THEN activeMonth[1].days ELSE <<>>

\* the cell rendered for days[i]
cellAt(i) ==
    cellOf(days[i], dateValueMap, intensityScale, baseColor, onDayClick)

cells == [i \in 1..Len(days) |-> cellAt(i)]

hasMultipleMonths == Len(safeMonths) > 1

\* the month <select> is painted (showMonth is at its default, true)
selectShown == activeMonth # None /\ hasMultipleMonths

-----------------------------------------------------------------------------
(* React state: the two effects on activeMonthIndex *)

depsNow == [start |-> start, end |-> end, len |-> Len(safeMonths)]

effectsPending == committed # Some(depsNow)

\* the reset effect with no dependency on start and end: it runs on mount only
resetEffectOnMountOnly(prev) ==
    IF committed = None THEN 0 ELSE prev

\* useEffect(() => setActiveMonthIndex(0), [start, end])
resetEffect(prev) ==
    IF committed = None \/ committed[1].start # start \/ committed[1].end # end
    THEN 0 ELSE prev

\* useEffect(() => setActiveMonthIndex((prev) => ...), [safeMonths.length])
clampEffect(prev) ==
    IF committed = None \/ committed[1].len # Len(safeMonths)
    THEN LET maxIndex == Len(safeMonths) - 1
         IN  IF prev > maxIndex THEN maxIndex ELSE prev
    ELSE prev

\* the effects of one commit run in source order; their updates are queued
\* and applied in that order to the state the update before them left
flushEffects(prev) == clampEffect(resetEffect(prev))

-----------------------------------------------------------------------------
(* Option defaulting and what the render makes of the resolved options *)

\* raw ?? fallback: only an absent (null or undefined) value is replaced
Coalesce(raw, fallback) == IF raw = None THEN fallback ELSE raw[1]

\* a string in the place of a number
Str == [k |-> "str", n |-> 0]

\* cell.size written as one value, or as an object with width and height
SizeValue(v) ==
    [t |-> "value", v |-> v, width |-> Undefined, height |-> Undefined]
SizeObject(w, h) ==
    [t |-> "object", v |-> Undefined, width |-> w, height |-> h]

\* if (x) for x a finite number or undefined
Truthy(x) == x # None /\ x[1] # 0

resolveCellDimensions(size, fallback) ==
    IF size.t = "value" /\ isFiniteNumber(size.v)
    THEN [width |-> size.v.n, height |-> size.v.n]
    ELSE
      LET width  == IF isFiniteNumber(size.width) THEN Some(size.width.n)
                    ELSE None
          height == IF isFiniteNumber(size.height) THEN Some(size.height.n)
                    ELSE None
      IN  IF size.t = "object" /\ Truthy(width) /\ Truthy(height)
          THEN [width |-> width[1], height |-> height[1]]
          ELSE IF size.t = "object" /\ Truthy(width)
          THEN [width |-> width[1], height |-> width[1]]
          ELSE IF size.t = "object" /\ Truthy(height)
          THEN [width |-> height[1], height |-> height[1]]
          ELSE [width |-> fallback, height |-> fallback]

cellDimensions    == resolveCellDimensions(options.size, 44)
legendPosition    == Coalesce(options.position, "bottom")
weekdayLanguage   == Coalesce(options.weekdayLanguage, "en")
showWeekdayLabels == Coalesce(options.showWeekday, TRUE)

\* the Korean labels are written by their code points
WEEKDAY_LABELS ==
    [en |-> <<"Sun", "Mon", "Tue", "Wed", "Thu", "Fri", "Sat">>,
     ko |-> <<"U+C77C", "U+C6D4", "U+D654", "U+C218", "U+BAA9", "U+AE08",
              "U+D1A0">>]

\* the labels kept in the order of WEEKDAY_LABELS whatever the week start
getOrderedWeekdayLabelsUnrotated(language, ws) ==
    LET labels == IF language \in DOMAIN WEEKDAY_LABELS
                  THEN Some(WEEKDAY_LABELS[language]) ELSE None
    IN  IF labels = None /\ ws # "sun"
        THEN [raised |-> TRUE, value |-> None]
        ELSE [raised |-> FALSE, value |-> labels]

\* raised: labels.slice of undefined is a TypeError; value <<>>: undefined
getOrderedWeekdayLabels(language, ws) ==
    LET labels == IF language \in DOMAIN WEEKDAY_LABELS
                  THEN Some(WEEKDAY_LABELS[language]) ELSE None
    IN  IF ws = "sun" THEN [raised |-> FALSE, value |-> labels]
        ELSE IF labels = None THEN [raised |-> TRUE, value |-> None]
        ELSE [raised |-> FALSE,
              value |-> Some(Tail(labels[1]) \o <<Head(labels[1])>>)]

weekdayLabels == getOrderedWeekdayLabels(weekdayLanguage, weekStart)

\* the render raises when the label memo does, or when it maps over
\* labels that are undefined
renderRaises ==
    \/ weekdayLabels.raised
    \/ showWeekdayLabels /\ weekdayLabels.value = None

\* where the legend is rendered: "top", "bottom", or "none"
legendPlacement ==
    IF legendPosition = "top" /\ showLegend THEN "top"
    ELSE IF legendPosition = "bottom" /\ showLegend THEN "bottom"
    ELSE "none"

-----------------------------------------------------------------------------
(* Operations.  A change of props renders at once with the state as it is;  *)
(* the effects of that commit run afterwards, and before any later render.  *)

propsRange    == <<start, end, now, months, weekStart, options>>
propsData     == <<data, onDayClick>>
propsLegend   == <<legendLabels, showLegend, baseColor>>
observers     == <<probe, probeOut, clicks>>

\* a parent render with a new start or end; the month memo is recomputed
\* and reads the clock
SetRange(s, e, clock) ==
    /\ ~effectsPending
    /\ <<s, e>> # <<start, end>>
    /\ getTime(clock) >= getTime(now)
    /\ start' = s
    /\ end' = e
    /\ now' = clock
    /\ months' = buildMonths(s, e, weekStart, clock)
    /\ UNCHANGED <<weekStart, options, activeMonthIndex, committed>>
    /\ UNCHANGED <<propsData, propsLegend, observers>>

\* a parent render with a new range.weekStart; the month memo is recomputed
SetWeekStart(ws, clock) ==
    /\ ~effectsPending
    /\ ws # weekStart
    /\ getTime(clock) >= getTime(now)
    /\ weekStart' = ws
    /\ options' = [options EXCEPT !.weekStart = Some(ws)]
    /\ now' = clock
    /\ months' = buildMonths(start, end, ws, clock)
    /\ UNCHANGED <<start, end, activeMonthIndex, committed>>
    /\ UNCHANGED <<propsData, propsLegend, observers>>

\* a parent render with other options; weekStart is resolved anew and the
\* month memo is recomputed when its weekStart dependency changed
SetOptions(o, clock) ==
    /\ ~effectsPending
    /\ o # options
    /\ getTime(clock) >= getTime(now)
    /\ options' = o
    /\ LET ws == Coalesce(o.weekStart, "sun")
       IN  /\ weekStart' = ws
           /\ IF ws # weekStart
              THEN /\ now' = clock
                   /\ months' = buildMonths(start, end, ws, clock)
              ELSE UNCHANGED <<now, months>>
    /\ UNCHANGED <<start, end, activeMonthIndex, committed>>
    /\ UNCHANGED <<propsData, propsLegend, observers>>

\* the passive effects of the last commit
RunEffects ==
    /\ effectsPending
    /\ activeMonthIndex' = flushEffects(activeMonthIndex)
    /\ committed' = Some(depsNow)
    /\ UNCHANGED <<propsRange, propsData, propsLegend, observers>>

\* onChange of the month <select>: the value of one of its options.  When
\* the effects of the commit are still pending they are flushed before the
\* next render, after this update was queued.
SelectMonth(idx) ==
    /\ selectShown
    /\ idx \in 0..(Len(safeMonths) - 1)
    /\ activeMonthIndex' = IF effectsPending THEN flushEffects(idx) ELSE idx
    /\ committed' = Some(depsNow)
    /\ UNCHANGED <<propsRange, propsData, propsLegend, observers>>

\* a parent render with new data
SetData(d) ==
    /\ ~effectsPending
    /\ d # data
    /\ data' = d
    /\ UNCHANGED <<propsRange, onDayClick, propsLegend, observers>>
    /\ UNCHANGED <<activeMonthIndex, committed>>

\* a parent render that adds or drops the onDayClick handler
SetOnDayClick(h) ==
    /\ ~effectsPending
    /\ h # onDayClick
    /\ onDayClick' = h
    /\ UNCHANGED <<propsRange, data, propsLegend, observers>>
    /\ UNCHANGED <<activeMonthIndex, committed>>

\* a parent render with new legend options
SetLegend(labels, show) ==
    /\ ~effectsPending
    /\ <<labels, show>> # <<legendLabels, showLegend>>
    /\ legendLabels' = labels
    /\ showLegend' = show
    /\ UNCHANGED <<propsRange, propsData, baseColor, observers>>
    /\ UNCHANGED <<activeMonthIndex, committed>>

\* a parent render with a new cell.baseColor
SetBaseColor(c) ==
    /\ ~effectsPending
    /\ c # baseColor
    /\ baseColor' = c
    /\ UNCHANGED <<propsRange, propsData, legendLabels, showLegend, observers>>
    /\ UNCHANGED <<activeMonthIndex, committed>>

\* one call intensityScale.intensity(v)
Lookup(v) ==
    /\ probe' = Some(v)
    /\ probeOut' = Some(intensity(intensityScale, v))
    /\ UNCHANGED <<propsRange, propsData, propsLegend, clicks>>
    /\ UNCHANGED <<activeMonthIndex, committed>>

\* a click on cell i of the grid on display.  Only a cell rendered with
\* onClick reacts; handleDayClick returns early without a handler and
\* otherwise calls it with { date: iso, value: valueForCell, inMonth }.
ClickCell(i) ==
    /\ i \in 1..Len(days)
    /\ cellAt(i).onClick
    /\ Len(clicks) < MaxClicks
    /\ clicks' = IF ~onDayClick THEN clicks
                 ELSE Append(clicks, [date    |-> cellAt(i).iso,
                                      value   |-> cellAt(i).valueForCell,
                                      inMonth |-> cellAt(i).inMonth])
    /\ UNCHANGED <<propsRange, propsData, propsLegend, probe, probeOut>>
    /\ UNCHANGED <<activeMonthIndex, committed>>

-----------------------------------------------------------------------------
(* Inputs *)

WeekStarts == {"sun", "mon"}

YearMonths == {[y |-> y, m |-> m] :
                  y \in FirstYear..(FirstYear + MaxYears - 1), m \in 1..12}

\* months since year 0 of a "YYYY-MM"
MonthOrdinal(ym) == ym.y * 12 + (ym.m - 1)

\* an explicit end from two months before s to MaxSpan months after it, or none
EndsNear(s) ==
    {None} \cup {Some(e) : e \in {x \in YearMonths :
        MonthOrdinal(x) - MonthOrdinal(s) \in (-2)..MaxSpan}}

\* clock readings, early in the first year of the range
FirstClock == NewDate(FirstYear, 2, 27)
Clocks == {FirstClock, NewDate(FirstYear, 3, 1)}

DefaultBaseColor == <<"#", "3", "b", "8", "2", "f", "6">>

\* no option written but range.weekStart
DefaultOptions ==
    [weekStart |-> None, position |-> None, weekdayLanguage |-> None,
     showWeekday |-> None, size |-> SizeValue(Undefined)]

\* every prop outside the range group at its default, nothing observed yet
DefaultProps ==
    /\ onDayClick = FALSE
    /\ legendLabels = None
    /\ showLegend = TRUE
    /\ baseColor = DefaultBaseColor
    /\ probe = None
    /\ probeOut = None
    /\ clicks = <<>>

\* the first render of a component mounted with the given range props and
\* options, every other prop at its default
MountWith(s, e, o, clock) ==
    /\ start = s
    /\ end = e
    /\ now = clock
    /\ options = o
    /\ weekStart = Coalesce(o.weekStart, "sun")
    /\ months = buildMonths(s, e, Coalesce(o.weekStart, "sun"), clock)
    /\ activeMonthIndex = 0
    /\ committed = None

\* the same with range.weekStart the one option written
Mount(s, e, ws, clock) ==
    MountWith(s, e, [DefaultOptions EXCEPT !.weekStart = Some(ws)], clock)

-----------------------------------------------------------------------------
(* SpecGrid: the range props over every month of the years modelled *)

InitGrid ==
    /\ \E s \in YearMonths : \E e \in EndsNear(s) :
       \E ws \in WeekStarts : Mount(s, e, ws, FirstClock)
    /\ data = <<>>
    /\ DefaultProps

NextGrid ==
    \/ RunEffects
    \/ \E c \in Clocks : SetRange(start, None, c)
    \/ \E ws \in WeekStarts : \E c \in Clocks : SetWeekStart(ws, c)

SpecGrid == InitGrid /\ [][NextGrid]_vars

-----------------------------------------------------------------------------
(* Spec: the component over a few ranges around a year boundary, with the   *)
(* month switcher and the effects                                           *)

\* December of the first year and January of the next
SwitcherStarts == {[y |-> FirstYear, m |-> 12], [y |-> FirstYear + 1, m |-> 1]}

\* the day the data of the small specifications is about: padding of the
\* December grid, in-month in the January grid
NewYearsDay == ToString(FirstYear + 1) \o "-01-01"
MidDecember == ToString(FirstYear) \o "-12-16"

OneEntry == <<[date |-> NewYearsDay, value |-> Num(7)]>>

Init ==
    /\ \E s \in SwitcherStarts : \E e \in EndsNear(s) :
          Mount(s, e, "sun", FirstClock)
    /\ data = <<>>
    /\ DefaultProps

Next ==
    \/ RunEffects
    \/ \E s \in SwitcherStarts : \E e \in EndsNear(s) : SetRange(s, e, now)
    \/ \E idx \in 0..(Len(safeMonths) - 1) : SelectMonth(idx)
    \/ \E ws \in WeekStarts : SetWeekStart(ws, now)
    \/ \E d \in {<<>>, OneEntry} : SetData(d)
    \/ \E show \in BOOLEAN : SetLegend(legendLabels, show)

Spec == Init /\ [][Next]_vars

-----------------------------------------------------------------------------
(* SpecCells: one two-month range, the data and the handler varying *)

CellValues == {Num(5), Num(100), Null, NaN}

CellEntries == {[date |-> d, value |-> v] :
                   d \in {NewYearsDay, MidDecember}, v \in CellValues}

InitCells ==
    /\ \E ws \in WeekStarts :
          Mount([y |-> FirstYear, m |-> 12], Some([y |-> FirstYear + 1, m |-> 1]),
                ws, FirstClock)
    /\ data = <<>>
    /\ DefaultProps

NextCells ==
    \/ RunEffects
    \/ \E idx \in 0..(Len(safeMonths) - 1) : SelectMonth(idx)
    \/ \E x \in CellEntries : Len(data) < MaxData /\ SetData(Append(data, x))
    \/ SetData(<<>>)
    \/ \E h \in BOOLEAN : SetOnDayClick(h)

SpecCells == InitCells /\ [][NextCells]_vars

-----------------------------------------------------------------------------
(* SpecScale: the scale over every short data list, and lookups on it.     *)
(* A new data list makes a new scale, so the list is built first and the   *)
(* lookups recorded are all of the scale of the data in the state.         *)

ScaleValues == {Num(-3), Num(4), Num(9), Null, NaN, Infinity}

ProbeValues == {Num(n) : n \in (-MaxProbe)..MaxProbe} \cup {Null}

InitScale ==
    /\ Mount([y |-> FirstYear, m |-> 12], None, "sun", FirstClock)
    /\ data = <<>>
    /\ DefaultProps

NextScale ==
    \/ RunEffects
    \/ \E v \in ScaleValues :
          /\ Len(data) < MaxData
          /\ probe = None
          /\ SetData(Append(data, [date |-> MidDecember, value |-> v]))
    \/ \E v \in ProbeValues : Lookup(v)

SpecScale == InitScale /\ [][NextScale]_vars

-----------------------------------------------------------------------------
(* SpecLegend: the legend options over every short label list *)

LabelNames == {"A", "B"}

InitLegend ==
    /\ Mount([y |-> FirstYear, m |-> 12], None, "sun", FirstClock)
    /\ data = <<>>
    /\ DefaultProps

NextLegend ==
    \/ RunEffects
    \/ \E b \in BOOLEAN : SetLegend(legendLabels, b)
    \/ SetLegend(Some(<<>>), showLegend)
    \/ \E l \in LabelNames :
          /\ legendLabels # None
          /\ Len(legendLabels[1]) < MaxLabels
          /\ SetLegend(Some(Append(legendLabels[1], l)), showLegend)

SpecLegend == InitLegend /\ [][NextLegend]_vars

-----------------------------------------------------------------------------
(* SpecClick: a two-month range, a few data lists, and clicks on the cells  *)
(* of three dates: one with data that pads the December grid, one December  *)
(* day with data, one December day without                                  *)

EarlyDecember == ToString(FirstYear) \o "-12-03"

ClickDates == {NewYearsDay, MidDecember, EarlyDecember}

ClickData ==
    {<<>>,
     <<[date |-> MidDecember, value |-> Num(5)]>>,
     <<[date |-> MidDecember, value |-> Num(5)],
       [date |-> NewYearsDay, value |-> Num(100)]>>,
     <<[date |-> MidDecember, value |-> Num(5)],
       [date |-> MidDecember, value |-> Null]>>,
     <<[date |-> NewYearsDay, value |-> NaN]>>}

InitClick ==
    /\ \E ws \in WeekStarts :
          Mount([y |-> FirstYear, m |-> 12], Some([y |-> FirstYear + 1, m |-> 1]),
                ws, FirstClock)
    /\ data = <<>>
    /\ DefaultProps

NextClick ==
    \/ RunEffects
    \/ \E idx \in 0..(Len(safeMonths) - 1) : SelectMonth(idx)
    \/ \E d \in ClickData : SetData(d)
    \/ \E h \in BOOLEAN : SetOnDayClick(h)
    \/ \E i \in 1..Len(days) : days[i].iso \in ClickDates /\ ClickCell(i)

SpecClick == InitClick /\ [][NextClick]_vars

-----------------------------------------------------------------------------
(* SpecColor: base colours written digit by digit, with and without "#",   *)
(* in either case; the colours of 3 and of 6 digits are the well-formed    *)
(* ones                                                                    *)

ColorDigits == {"3", "b", "F"}

\* the digits of a colour, the "#" left out
DigitsOf(c) == SelectSeq(c, LAMBDA ch : ch # "#")

InitColor ==
    /\ Mount([y |-> FirstYear, m |-> 12], None, "sun", FirstClock)
    /\ data = <<>>
    /\ onDayClick = FALSE
    /\ legendLabels = None
    /\ showLegend = TRUE
    /\ baseColor \in {<<>>, <<"#">>}
    /\ probe = None
    /\ probeOut = None
    /\ clicks = <<>>

NextColor ==
    \/ RunEffects
    \/ \E ch \in ColorDigits :
          /\ Len(DigitsOf(baseColor)) < 6
          /\ SetBaseColor(Append(baseColor, ch))

SpecColor == InitColor /\ [][NextColor]_vars

-----------------------------------------------------------------------------
(* SpecConfig: the options written one at a time, in and out of their      *)
(* documented domains                                                      *)

WeekStartsWritten == {None, Some("sun"), Some("mon"), Some("tue")}
PositionsWritten  == {None, Some("top"), Some("bottom"), Some("left")}
LanguagesWritten  == {None, Some("en"), Some("ko"), Some("fr")}
ShowWeekdayWritten == {None, Some(FALSE)}

\* what a size, a width or a height is written as
SizeParts == {Undefined, Str, Num(0), Num(20), Num(MaxCellSize)}
SizesWritten ==
    {SizeValue(v) : v \in {Undefined, Null, NaN, Str, Num(0), Num(MaxCellSize)}}
    \cup {SizeObject(w, h) : w \in SizeParts, h \in SizeParts}

InitConfig ==
    /\ MountWith([y |-> FirstYear, m |-> 2], None, DefaultOptions, FirstClock)
    /\ data = <<>>
    /\ DefaultProps

NextConfig ==
    \/ RunEffects
    \/ \E w \in WeekStartsWritten :
          SetOptions([options EXCEPT !.weekStart = w], now)
    \/ \E q \in PositionsWritten :
          SetOptions([options EXCEPT !.position = q], now)
    \/ \E l \in LanguagesWritten :
          SetOptions([options EXCEPT !.weekdayLanguage = l], now)
    \/ \E b \in ShowWeekdayWritten :
          SetOptions([options EXCEPT !.showWeekday = b], now)
    \/ \E z \in SizesWritten :
          SetOptions([options EXCEPT !.size = z], now)

SpecConfig == InitConfig /\ [][NextConfig]_vars

-----------------------------------------------------------------------------
(* The calendar the claims are read against *)

IsLeapYear(y) == (y % 4 = 0 /\ y % 100 # 0) \/ y % 400 = 0

\* days of month m (1-based) of year y
DaysInMonth(y, m) ==
    IF m = 2 THEN (IF IsLeapYear(y) THEN 29 ELSE 28)
    ELSE IF m \in {4, 6, 9, 11} THEN 30 ELSE 31

\* day number of a calendar day, month 1-based
DayNumber(y, m, d) == DaysFromCivil(y, m, d)

\* 0 = Sunday .. 6 = Saturday
Weekday(z) == (z + 4) % 7

WeekStartDay(ws) == IF ws = "sun" THEN 0 ELSE 1

IsoOfDayNumber(z) == toISO(CivilFromDays(z))

\* the month the range ends with: the explicit end, else the clock's month
EffectiveEnd == IF end # None THEN end[1] ELSE [y |-> now.y, m |-> now.m + 1]

RangeIsForward == MonthOrdinal(start) <= MonthOrdinal(EffectiveEnd)

-----------------------------------------------------------------------------
(* C1: every grid buildMonthDays builds is a run of consecutive calendar    *)
(* days, a multiple of 7 long, from the latest week-start weekday on or     *)
(* before the 1st of the month to the day before the first week-start       *)
(* weekday after the last day of the month, holding every day of the month. *)

GridIsWholeWeeks(g, ws) ==
    LET y     == g.year
        m     == g.month + 1
        first == DayNumber(y, m, 1)
        last  == DayNumber(y, m, DaysInMonth(y, m))
        z0    == CHOOSE z \in (first - 6)..first : Weekday(z) = WeekStartDay(ws)
        z1    == CHOOSE z \in last..(last + 6) : Weekday(z + 1) = WeekStartDay(ws)
        n     == Len(g.days)
    IN  /\ n > 0
        /\ n % 7 = 0
        /\ n = z1 - z0 + 1
        /\ \A i \in 1..n : g.days[i].iso = IsoOfDayNumber(z0 + i - 1)
        /\ \A d \in 1..DaysInMonth(y, m) :
              \E i \in 1..n :
                 g.days[i].iso = ToString(y) \o "-" \o pad(m) \o "-" \o pad(d)

C1_GridIsWholeWeeks ==
    \A i \in 1..Len(safeMonths) : GridIsWholeWeeks(safeMonths[i], weekStart)

\* a Monday-first grid of six weeks with padding on both sides
C1_Witness ==
    /\ weekStart = "mon"
    /\ \E i \in 1..Len(safeMonths) :
          /\ Len(safeMonths[i].days) = 42
          /\ ~safeMonths[i].days[1].inMonth
          /\ ~safeMonths[i].days[42].inMonth

-----------------------------------------------------------------------------
(* C2: when start <= end, every date from the first day of start to the     *)
(* last day of end is an in-month day of exactly one grid of buildMonths.   *)

GridsOwning(iso) ==
    {i \in 1..Len(months) :
        \E j \in 1..Len(months[i].days) :
            months[i].days[j].iso = iso /\ months[i].days[j].inMonth}

C2_EachDateOwnedOnce ==
    RangeIsForward =>
        \A z \in DayNumber(start.y, start.m, 1)
                 ..DayNumber(EffectiveEnd.y, EffectiveEnd.m,
                             DaysInMonth(EffectiveEnd.y, EffectiveEnd.m)) :
            Cardinality(GridsOwning(IsoOfDayNumber(z))) = 1

\* a range over a year boundary in which some date is padding in one grid
\* and in-month in the next
C2_Witness ==
    /\ Len(months) >= 2
    /\ months[1].year # months[Len(months)].year
    /\ \E j \in 1..Len(months[1].days) :
          /\ ~months[1].days[j].inMonth
          /\ GridsOwning(months[1].days[j].iso) = {2}

-----------------------------------------------------------------------------
(* C3: the selectable months are one grid per calendar month from start to  *)
(* the end (the clock's month when end is absent), ascending, when the end  *)
(* is not before start; otherwise buildMonths is empty and the list is the  *)
(* single grid of start's month.  The list is never empty.                  *)

GridOrdinal(g) == g.year * 12 + g.month

C3_SafeMonthsDetermined ==
    /\ Len(safeMonths) >= 1
    /\ RangeIsForward =>
          /\ safeMonths = months
          /\ Len(months) = MonthOrdinal(EffectiveEnd) - MonthOrdinal(start) + 1
          /\ \A i \in 1..Len(months) :
                /\ months[i].month \in 0..11
                /\ GridOrdinal(months[i]) = MonthOrdinal(start) + i - 1
    /\ ~RangeIsForward =>
          /\ months = <<>>
          /\ Len(safeMonths) = 1
          /\ safeMonths[1].month \in 0..11
          /\ GridOrdinal(safeMonths[1]) = MonthOrdinal(start)
          /\ Len(safeMonths[1].days) > 0

\* an explicit end before start: the fallback grid is what is shown
C3_Witness ==
    /\ end # None
    /\ MonthOrdinal(end[1]) < MonthOrdinal(start)
    /\ months = <<>>
    /\ Len(safeMonths) = 1

-----------------------------------------------------------------------------
(* C4: at every render the selected month index picks a grid of the list:   *)
(* 0 <= activeMonthIndex <= safeMonths.length - 1.                          *)

C4_IndexAlwaysInRange ==
    activeMonthIndex \in 0..(Len(safeMonths) - 1)

-----------------------------------------------------------------------------
(* C5, as amended: with data = [] and a day-click handler supplied, every   *)
(* cell of the displayed grid is filled with emptyColor and carries no      *)
(* value; the cells of other months have no click handler and every cell of *)
(* the month has one.                                                       *)

C5_EmptyDataCells ==
    (data = <<>> /\ onDayClick) =>
        \A i \in 1..Len(cells) :
            /\ cells[i].fill = emptyColor
            /\ cells[i].valueForCell = Null
            /\ cells[i].interactive = days[i].inMonth
            /\ cells[i].onClick = days[i].inMonth

\* C5 as claimed: with data = [] and a handler supplied, every cell is filled
\* with emptyColor and no cell is interactive
C5_NoCellInteractive ==
    (data = <<>> /\ onDayClick) =>
        \A i \in 1..Len(cells) :
            /\ cells[i].fill = emptyColor
            /\ ~cells[i].interactive
            /\ ~cells[i].onClick

\* no data, a handler configured, the second month on display: cells with
\* the handler attached and padding cells without it
C5_Witness ==
    /\ data = <<>>
    /\ onDayClick
    /\ activeMonthIndex = 1
    /\ Len(cells) >= 28
    /\ \E i \in 1..Len(cells) : cells[i].onClick
    /\ \E i \in 1..Len(cells) : ~cells[i].onClick

-----------------------------------------------------------------------------
(* The data the claims are read against *)

FiniteData == {data[i].value.n : i \in {j \in 1..Len(data) : data[j].value.k = "num"}}

DataMin == CHOOSE x \in FiniteData : \A y \in FiniteData : x <= y
DataMax == CHOOSE x \in FiniteData : \A y \in FiniteData : x >= y

\* the value the last entry for a date holds, if any entry is for it
LastValueFor(iso) ==
    LET at == {i \in 1..Len(data) : data[i].date = iso}
    IN  IF at = {} THEN Undefined
        ELSE data[CHOOSE i \in at : \A j \in at : j <= i].value

\* the position of v between the least and the greatest finite value
ExpectedIntensity(v) ==
    IF DataMin = DataMax THEN [num |-> 1, den |-> 1]
    ELSE Frac(v - DataMin, DataMax - DataMin)

Zero == [num |-> 0, den |-> 1]
One  == [num |-> 1, den |-> 1]

-----------------------------------------------------------------------------
(* C6: the intensity function of the scale over the finite data values is   *)
(* non-decreasing, stays within [0, 1], is 0 at the minimum and 1 at the    *)
(* maximum when min < max, and is 1 at the one value when all are equal.    *)

C6_ScaleMonotoneAndBounded ==
    (probe # None /\ probe[1].k = "num") =>
        LET v   == probe[1].n
            out == probeOut[1]
        IN  /\ out.den > 0
            /\ FracLe(Zero, out) /\ FracLe(out, One)
            /\ \A w \in (-MaxProbe)..MaxProbe :
                  /\ v <= w => FracLe(out, intensity(intensityScale, Num(w)))
                  /\ w <= v => FracLe(intensity(intensityScale, Num(w)), out)
            /\ FiniteData # {} =>
                  /\ (DataMin < DataMax /\ v = DataMin) => out = Zero
                  /\ (DataMin < DataMax /\ v = DataMax) => out = One
                  /\ (DataMin = DataMax /\ v = DataMin) => out = One
                  /\ (v \in FiniteData) => out = ExpectedIntensity(v)

\* a lookup strictly inside a range of two distinct values
C6_Witness ==
    /\ Cardinality(FiniteData) >= 2
    /\ probe # None
    /\ probe[1].k = "num"
    /\ probe[1].n > DataMin
    /\ probe[1].n < DataMax
    /\ ~FracLe(probeOut[1], Zero)
    /\ ~FracLe(One, probeOut[1])

-----------------------------------------------------------------------------
(* C7, as amended: with no finite value in the data the scale has           *)
(* min = max = 0, a lookup of an absent value returns 0 and a lookup of any *)
(* number returns 1.                                                        *)

C7_NoFiniteData ==
    FiniteData = {} =>
        /\ intensityScale.resolvedMin = 0
        /\ intensityScale.resolvedMax = 0
        /\ probe # None =>
              probeOut[1] = IF probe[1].k = "num" THEN One ELSE Zero

\* C7 as claimed: with no finite value every lookup returns 0, for an absent
\* value and for any number
C7_EveryLookupZero ==
    FiniteData = {} =>
        /\ intensityScale.resolvedMin = 0
        /\ intensityScale.resolvedMax = 0
        /\ probe # None => probeOut[1] = Zero

\* data that holds entries, none finite, and a number looked up
C7_Witness ==
    /\ Len(data) >= 2
    /\ FiniteData = {}
    /\ probe # None
    /\ probe[1].k = "num"
    /\ probeOut[1] = One

-----------------------------------------------------------------------------
(* C8, as amended: with the legend enabled the legend builder returns       *)
(* exactly 4 levels with intensities 0, 1/3, 2/3, 1 in that order, for      *)
(* every caller label list; with the legend disabled it returns no level.   *)

LegendIntensities ==
    <<[num |-> 0, den |-> 1], [num |-> 1, den |-> 3],
      [num |-> 2, den |-> 3], [num |-> 1, den |-> 1]>>

C8_LegendLevels ==
    /\ showLegend =>
          /\ Len(legendLevels) = 4
          /\ \A i \in 1..4 : legendLevels[i].intensity = LegendIntensities[i]
          /\ Len(Legend(baseColor, legendLevels)) = 4
    /\ ~showLegend =>
          /\ legendLevels = <<>>
          /\ Legend(baseColor, legendLevels) = <<>>

\* C8 as claimed: 4 levels at 0, 1/3, 2/3, 1 whatever the labels and
\* whether the legend is enabled or not
C8_AlwaysFourLevels ==
    /\ Len(legendLevels) = 4
    /\ \A i \in 1..4 : legendLevels[i].intensity = LegendIntensities[i]

\* six caller labels, the legend enabled
C8_Witness ==
    /\ showLegend
    /\ legendLabels # None
    /\ Len(legendLabels[1]) = 6
    /\ Len(legendLevels) = 4

-----------------------------------------------------------------------------
(* C9: resolved label i is the caller's label i while the caller has one,   *)
(* at most 4, and the default label at index i after that.                  *)

CallerLabels == IF legendLabels = None THEN <<>> ELSE legendLabels[1]

C9_LabelsResolved ==
    /\ Len(legendLabelsResolved) = 4
    /\ \A i \in 1..4 :
          legendLabelsResolved[i] =
              IF i <= Len(CallerLabels) THEN CallerLabels[i]
              ELSE <<"Low", "Medium", "High", "Very High">>[i]

\* the one label "A"
C9_Witness ==
    /\ legendLabels = Some(<<"A">>)
    /\ legendLabelsResolved = <<"A", "Medium", "High", "Very High">>

-----------------------------------------------------------------------------
(* C10: a cell of another month is filled with emptyColor and carries no    *)
(* value whatever the data holds for its date; a cell of the month whose    *)
(* date has no finite value in the index is filled with emptyColor; a cell  *)
(* of the month with the finite value v is filled with                      *)
(* mixToWhite(baseColor, scale(v)), the base colour itself when the data    *)
(* holds a single value.                                                    *)

BaseRgbString ==
    LET rgb == hexToRgb(baseColor) IN RgbString(rgb[1], rgb[2], rgb[3])

C10_CellFill ==
    \A i \in 1..Len(cells) :
        LET v == LastValueFor(days[i].iso)
        IN  /\ ~days[i].inMonth =>
                  /\ cells[i].fill = emptyColor
                  /\ cells[i].valueForCell = Null
            /\ (days[i].inMonth /\ v.k # "num") =>
                  /\ cells[i].fill = emptyColor
                  /\ cells[i].valueForCell = Null
            /\ (days[i].inMonth /\ v.k = "num") =>
                  /\ cells[i].valueForCell = v
                  /\ cells[i].intensity = ExpectedIntensity(v.n)
                  /\ cells[i].fill = mixToWhite(baseColor, ExpectedIntensity(v.n))
                  /\ Cardinality(FiniteData) = 1 =>
                        cells[i].fill = BaseRgbString

\* December on display, the same single value on a December day and on the
\* January day that pads the December grid
C10_Witness ==
    /\ Cardinality(FiniteData) = 1
    /\ \E i \in 1..Len(cells) :
          /\ ~days[i].inMonth
          /\ LastValueFor(days[i].iso).k = "num"
          /\ cells[i].fill = emptyColor
    /\ \E i \in 1..Len(cells) :
          /\ days[i].inMonth
          /\ LastValueFor(days[i].iso).k = "num"
          /\ cells[i].fill = "rgb(59, 130, 246)"

-----------------------------------------------------------------------------
(* C11: a cell is interactive exactly when a day-click handler is           *)
(* configured and the cell is of the month; the handler is never called for *)
(* a cell of another month nor when none is configured, and every payload   *)
(* {date, value, inMonth} it receives has inMonth true and the value the    *)
(* index holds for that date (null when it holds no finite value).          *)

IndexedValue(iso) ==
    IF LastValueFor(iso).k = "num" THEN LastValueFor(iso) ELSE Null

InteractiveIffHandlerAndInMonth ==
    \A i \in 1..Len(cells) :
        /\ cells[i].interactive = (onDayClick /\ days[i].inMonth)
        /\ cells[i].onClick = (onDayClick /\ days[i].inMonth)

\* a step that delivers a payload: it came from a cell of the month on
\* display, a handler was configured, and the payload is that cell's
PayloadIsOfAnInMonthCell ==
    clicks' # clicks =>
        /\ onDayClick
        /\ Len(clicks') = Len(clicks) + 1
        /\ SubSeq(clicks', 1, Len(clicks)) = clicks
        /\ LET p == clicks'[Len(clicks')]
           IN  /\ p.inMonth = TRUE
               /\ p.value = IndexedValue(p.date)
               /\ \E i \in 1..Len(days) :
                     days[i].iso = p.date /\ days[i].inMonth

\* every step starts in a render whose cells are interactive exactly when
\* they should be (every render has a step leaving it: the handler can
\* always be added or dropped, or the effects are pending), and delivers a
\* payload only as PayloadIsOfAnInMonthCell
C11_ClicksOnlyInMonth ==
    [][InteractiveIffHandlerAndInMonth /\ PayloadIsOfAnInMonthCell]_vars

\* two payloads delivered, one with a value and one with null, while the
\* grid on display also holds a padding cell whose date has data
C11_Witness ==
    /\ Len(clicks) = 2
    /\ clicks[1].value # Null
    /\ clicks[2].value = Null
    /\ \E i \in 1..Len(cells) :
          ~days[i].inMonth /\ LastValueFor(days[i].iso).k = "num"

-----------------------------------------------------------------------------
(* C12: mixToWhite(base, 0) is white and mixToWhite(base, 1) has the        *)
(* channels of base, for every base of 6 hex digits and every base of 3     *)
(* hex digits with each digit doubled; in between each channel is           *)
(* round(c + (255 - c) * (1 - t)) and lies between c and 255.               *)

\* the value of a hex digit, read off the digit itself
DigitValue(ch) ==
    CASE ch = "0" -> 0 [] ch = "1" -> 1 [] ch = "2" -> 2 [] ch = "3" -> 3
      [] ch = "4" -> 4 [] ch = "5" -> 5 [] ch = "6" -> 6 [] ch = "7" -> 7
      [] ch = "8" -> 8 [] ch = "9" -> 9
      [] ch \in {"a", "A"} -> 10 [] ch \in {"b", "B"} -> 11
      [] ch \in {"c", "C"} -> 12 [] ch \in {"d", "D"} -> 13
      [] ch \in {"e", "E"} -> 14 [] ch \in {"f", "F"} -> 15

\* the channels a well-formed base colour names
BaseChannels ==
    LET ds == DigitsOf(baseColor)
    IN  IF Len(ds) = 3
        THEN [i \in 1..3 |-> 17 * DigitValue(ds[i])]
        ELSE [i \in 1..3 |-> 16 * DigitValue(ds[2 * i - 1]) + DigitValue(ds[2 * i])]

\* intensities n / d from 0 to 1 with denominators up to MaxDenominator
UnitIntensities ==
    UNION {{Frac(n, d) : n \in 0..d} : d \in 1..MaxDenominator}

\* k is c + (255 - c) * (1 - t) rounded to the nearest integer, halves up
IsRoundedMix(k, c, t) ==
    LET x2 == 2 * (c * t.den + (255 - c) * (t.den - t.num))
    IN  /\ 2 * k * t.den - t.den <= x2
        /\ x2 < 2 * k * t.den + t.den

\* the one channel value in c..255 that is the rounded mix
RoundedMix(c, t) == CHOOSE k \in c..255 : IsRoundedMix(k, c, t)

C12_MixToWhite ==
    Len(DigitsOf(baseColor)) \in {3, 6} =>
        /\ hexToRgb(baseColor) = BaseChannels
        /\ mixToWhite(baseColor, Zero) = "rgb(255, 255, 255)"
        /\ mixToWhite(baseColor, One) =
              RgbString(BaseChannels[1], BaseChannels[2], BaseChannels[3])
        /\ \A t \in UnitIntensities :
              /\ \A i \in 1..3 :
                    \E k \in BaseChannels[i]..255 :
                       IsRoundedMix(k, BaseChannels[i], t)
              /\ mixToWhite(baseColor, t) =
                    RgbString(RoundedMix(BaseChannels[1], t),
                              RoundedMix(BaseChannels[2], t),
                              RoundedMix(BaseChannels[3], t))

\* a base of 3 digits written without "#", its channels none of them 0 or 255
C12_Witness ==
    /\ Len(baseColor) = 3
    /\ Len(DigitsOf(baseColor)) = 3
    /\ \A i \in 1..3 : hexToRgb(baseColor)[i] \in 1..254
    /\ \E i, j \in 1..3 : hexToRgb(baseColor)[i] # hexToRgb(baseColor)[j]

-----------------------------------------------------------------------------
(* C13: resolving the configuration never raises, and every option is the   *)
(* caller's value when that lies in the documented domain and the default   *)
(* otherwise: weekStart outside {sun, mon} is sun, legend.position outside  *)
(* {top, bottom} is bottom, weekdayLanguage outside {en, ko} is en, a size  *)
(* that is no number is the 44px square, a width or a height alone gives    *)
(* the square of that dimension.                                            *)

\* the caller's value when it lies in the domain, the default otherwise
InDomainOr(raw, domain, default) ==
    IF raw # None /\ raw[1] \in domain THEN raw[1] ELSE default

Square(n) == [width |-> n, height |-> n]

\* the cell dimensions the documentation gives for the size written
DocumentedDimensions ==
    LET z == options.size
    IN  IF z.t = "value"
        THEN IF z.v.k = "num" THEN Square(z.v.n) ELSE Square(44)
        ELSE IF z.width.k = "num" /\ z.height.k = "num"
             THEN [width |-> z.width.n, height |-> z.height.n]
        ELSE IF z.width.k = "num" THEN Square(z.width.n)
        ELSE IF z.height.k = "num" THEN Square(z.height.n)
        ELSE Square(44)

C13_ConfigResolved ==
    /\ ~renderRaises
    /\ weekStart = InDomainOr(options.weekStart, {"sun", "mon"}, "sun")
    /\ legendPosition = InDomainOr(options.position, {"top", "bottom"}, "bottom")
    /\ weekdayLanguage = InDomainOr(options.weekdayLanguage, {"en", "ko"}, "en")
    /\ cellDimensions = DocumentedDimensions

-----------------------------------------------------------------------------
(* C14: the weekday labels are the 7 labels rotated to begin at the         *)
(* configured week start, Sun..Sat for sun and Mon..Sun for mon, and in     *)
(* every month grid every cell of column k falls on the weekday that        *)
(* label k names.                                                           *)

\* the names of the weekdays 0 = Sunday .. 6 = Saturday, by language
NamesFromSunday(language) ==
    IF language = "en"
    THEN <<"Sun", "Mon", "Tue", "Wed", "Thu", "Fri", "Sat">>
    ELSE <<"U+C77C", "U+C6D4", "U+D654", "U+C218", "U+BAA9", "U+AE08",
           "U+D1A0">>

\* every cell of g lies in the column whose label names its weekday
ColumnsMatchLabels(g, labels, language) ==
    LET first == DayNumber(g.year, g.month + 1, 1)
    IN  \E z0 \in (first - 6)..first :
           \A i \in 1..Len(g.days) :
              /\ g.days[i].iso = IsoOfDayNumber(z0 + i - 1)
              /\ labels[((i - 1) % 7) + 1] =
                    NamesFromSunday(language)[Weekday(z0 + i - 1) + 1]

LabelsFitGrids(language) ==
    LET ordered == getOrderedWeekdayLabels(language, weekStart)
    IN  /\ ~ordered.raised
        /\ ordered.value # None
        /\ Len(ordered.value[1]) = 7
        /\ \A k \in 1..7 :
              ordered.value[1][k] =
                 NamesFromSunday(language)[((WeekStartDay(weekStart) + k - 1) % 7) + 1]
        /\ \A i \in 1..Len(safeMonths) :
              ColumnsMatchLabels(safeMonths[i], ordered.value[1], language)

C14_LabelsNameTheColumns ==
    /\ weekdayLabels = getOrderedWeekdayLabels(weekdayLanguage, weekStart)
    /\ LabelsFitGrids(weekdayLanguage)
    /\ LabelsFitGrids("ko")

\* Monday-first labels over a grid of six weeks
C14_Witness ==
    /\ weekStart = "mon"
    /\ ~weekdayLabels.raised
    /\ weekdayLabels.value # None
    /\ weekdayLabels.value[1][1] = "Mon"
    /\ weekdayLabels.value[1][7] = "Sun"
    /\ \E i \in 1..Len(safeMonths) : Len(safeMonths[i].days) = 42

-----------------------------------------------------------------------------
(* C15: whenever start or end changes, the selected month index is 0 once   *)
(* the effects of that change have run, whatever month was selected before; *)
(* a change only of data, weekStart or the style options leaves the         *)
(* selected month index as it is and gives the effects nothing to run on.   *)

\* a render whose start or end differs from the one before it waits for its
\* effects, and the step on which they run leaves the index at 0
RangeChangeEndsAtZero ==
    /\ <<start', end'>> # <<start, end>> =>
          /\ committed' = committed
          /\ committed # None
          /\ committed[1].start # start' \/ committed[1].end # end'
    /\ ( /\ committed # None
         /\ committed[1].start # start \/ committed[1].end # end
         /\ committed' # committed ) =>
          /\ activeMonthIndex' = 0
          /\ committed'[1].start = start
          /\ committed'[1].end = end

\* a render that differs in data, weekStart or the legend options only
OtherChangeKeepsIndex ==
    ( /\ <<start', end'>> = <<start, end>>
      /\ \/ data' # data
         \/ weekStart' # weekStart
         \/ showLegend' # showLegend ) =>
          /\ activeMonthIndex' = activeMonthIndex
          /\ committed' = committed
          /\ Len(months') = Len(months)
          /\ ~effectsPending

C15_RangeChangeResetsIndex ==
    [][RangeChangeEndsAtZero /\ OtherChangeKeepsIndex]_vars

\* the range has changed with the second month selected and more than one
\* month left, after data, weekStart and the legend were changed with a
\* month other than the first on display; the effects are about to run
C15_Witness ==
    /\ effectsPending
    /\ committed # None
    /\ committed[1].start # start \/ committed[1].end # end
    /\ activeMonthIndex > 0
    /\ activeMonthIndex < Len(safeMonths)
    /\ data # <<>>
    /\ weekStart = "mon"
    /\ ~showLegend

====
